---------------------------- MODULE Spec2Model ----------------------------
(***************************************************************************)
(* Model of the simulation engine of app.py: aggregate_prices,             *)
(* simulate_standard_dca and simulate_sdca.                                *)
(*                                                                         *)
(* Numbers.  The program computes in IEEE doubles.  The model computes in  *)
(* exact rationals: money amounts and prices are integers, a quantity of   *)
(* units is an integer count of 1/UnitScale units (UnitScale is a common   *)
(* multiple of every price of the model, so invest / price is exact), a    *)
(* ratio is a record [num, den].  Rounding of doubles is not modelled.     *)
(*                                                                         *)
(* Optional values.  Python's None is the empty set, a present value v is  *)
(* the singleton {v}.                                                      *)
(*                                                                         *)
(* Strings.  The action tags are built as the f-strings build them; the    *)
(* two non-ASCII characters of the dip tag are written "x" and "->".       *)
(***************************************************************************)
EXTENDS Integers, Sequences, FiniteSets, TLC

(***************************************************************************)
(* Bounds of the model and the input domains.                              *)
(***************************************************************************)
MaxLen == 5

Prices == {3, 4, 5}

UnitScale == 3 * 4 * 5

Bases == {-1, 0, 1, 2}

Thresholds == {-10, 0, 10, 25}

None == {}

Some(v) == {v}

Val(o) == CHOOSE v \in o : TRUE

MaxKs == {None, Some(-1), Some(0), Some(1), Some(2)}

RECURSIVE SeqsUpTo(_, _)
SeqsUpTo(S, n) ==
    IF n = 0 THEN {<<>>}
    ELSE LET shorter == SeqsUpTo(S, n - 1)
         IN  shorter \cup {Append(s, x) : s \in {t \in shorter : Len(t) = n - 1}, x \in S}

PriceSeries == SeqsUpTo(Prices, MaxLen)

\* The calendar of the aggregator's inputs: day 1 is Monday 2024-01-29, so
\* day 3 is the end of January, days 7, 14 and 21 are Sundays and day 32 is
\* the end of February.  A DataFrame holds at most MaxSamples of the days, or
\* ten consecutive days from a Monday on.
MaxDay == 15

MaxSamples == 3

Days == 1..MaxDay

Frequencies == {"Daily", "Weekly", "Monthly", "Yearly"}

(***************************************************************************)
(* State of one driver run: simulate_standard_dca(prices, base) is called, *)
(* then simulate_sdca(prices, base, threshold_pct, max_k) on the same      *)
(* inputs.  The outcome of each call (its return value or the exception it *)
(* raises) is kept in std_result / sdca_result.                            *)
(***************************************************************************)
VARIABLES
    prices,          \* the pd.Series: prices[i] is the price at date i
    base,
    threshold_pct,
    max_k,
    pc,              \* "std", "between", "sdca", "done"
    idx,             \* number of samples the running loop has consumed
    rows,            \* the rows list of the running call
    cum_units,
    total_invested,
    prev_price,
    skip,
    std_result,
    sdca_result,
    df,              \* aggregate_prices: the DataFrame, rows [Date, Close]
    frequency,
    agg_result

simVars == <<prices, base, threshold_pct, max_k, pc, idx, rows, cum_units,
             total_invested, prev_price, skip, std_result, sdca_result>>

aggVars == <<df, frequency, agg_result>>

vars == <<simVars, aggVars>>

NoResult == [kind |-> "none", out |-> <<>>]

(***************************************************************************)
(* Pure helpers of the two simulators.                                     *)
(***************************************************************************)

\* invest / price, in 1/UnitScale units (app.py:114)
Divide(invest, price) == (invest * UnitScale) \div price

\* units = invest / price if invest > 0 else 0.0 (app.py:168)
UnitsOfBadGuard(invest, price) == IF invest > 1 THEN Divide(invest, price) ELSE 0

UnitsOf(invest, price) == IF invest > 0 THEN Divide(invest, price) ELSE 0

\* g = threshold_pct / 100.0 if threshold_pct else 0.0 (app.py:139)
GBadDefault(thr) == IF thr # 0 THEN [num |-> thr, den |-> 100] ELSE [num |-> 1, den |-> 100]

G(thr) == IF thr # 0 THEN [num |-> thr, den |-> 100] ELSE [num |-> 0, den |-> 1]

\* change = (price - prev_price) / prev_price if prev_price != 0 else 0.0
Change(price, prev) ==
    IF prev # 0 THEN [num |-> price - prev, den |-> prev] ELSE [num |-> 0, den |-> 1]

Abs(n) == IF n < 0 THEN -n ELSE n

\* math.floor(abs(change) / g), for g > 0 and a positive denominator of change
FloorRatio(change, g) == (Abs(change.num) * g.den) \div (change.den * g.num)

MinOf(a, b) == IF a < b THEN a ELSE b

\* if max_k is not None and max_k > 0: k = min(k, max_k)
ClampBadNoCap(k, cap) == k

ClampBadZeroDisables(k, cap) == IF cap # None THEN MinOf(k, Val(cap)) ELSE k

Clamp(k, cap) == IF cap # None /\ Val(cap) > 0 THEN MinOf(k, Val(cap)) ELSE k

\* the k of an Armed interval: 0 when the dip branch is not taken
DipKBadCeil(price, prev, thr, cap) ==
    LET change == Change(price, prev)
        g == G(thr)
    IN  IF change.num < 0 /\ g.num > 0
        THEN Clamp(FloorRatio(change, g) + 1, cap)
        ELSE 0

DipK(price, prev, thr, cap) ==
    LET change == Change(price, prev)
        g == G(thr)
    IN  IF change.num < 0 /\ g.num > 0
        THEN Clamp(FloorRatio(change, g), cap)
        ELSE 0

SkipTag(n) == "skip (" \o ToString(n) \o " left)"

DipTag(k, mult) ==
    "dip " \o ToString(k) \o "x -> buy " \o ToString(mult) \o "x, skip " \o ToString(k)

\* The branch of one loop iteration of simulate_sdca (app.py:142-166):
\* what is invested, the multiplier, the action tag and the skip counter after.
DecideBadRetrigger(price, prev, sk, b, thr, cap) ==
    LET k == IF prev = None THEN 0 ELSE DipK(price, Val(prev), thr, cap)
    IN  IF prev = None
        THEN [invest |-> b, mult |-> 1, action |-> "base (first)", skip |-> sk]
        ELSE IF k > 0
        THEN [invest |-> b * (1 + k), mult |-> 1 + k,
              action |-> DipTag(k, 1 + k), skip |-> k]
        ELSE IF sk > 0
        THEN [invest |-> 0, mult |-> 1, action |-> SkipTag(sk), skip |-> sk - 1]
        ELSE [invest |-> b, mult |-> 1, action |-> "base", skip |-> sk]

Decide(price, prev, sk, b, thr, cap) ==
    IF prev = None
    THEN [invest |-> b, mult |-> 1, action |-> "base (first)", skip |-> sk]
    ELSE IF sk > 0
    THEN [invest |-> 0, mult |-> 1, action |-> SkipTag(sk), skip |-> sk - 1]
    ELSE LET k == DipK(price, Val(prev), thr, cap)
         IN  IF k > 0
             THEN [invest |-> b * (1 + k), mult |-> 1 + k,
                   action |-> DipTag(k, 1 + k), skip |-> k]
             ELSE [invest |-> b, mult |-> 1, action |-> "base", skip |-> sk]

\* prev_price = price, the last statement of every iteration (app.py:178)
NextPrevBadKeepInSkip(price, prev, skBefore) ==
    IF prev # None /\ skBefore > 0 THEN prev ELSE Some(price)

NextPrev(price, prev, skBefore) == Some(price)

\* invest = base of simulate_standard_dca (app.py:113)
StdInvestBadRounded(b) == b + 1

StdInvest(b) == b

Row(dt, price, invest, units, cu, ti, action, sk, mult) ==
    [Date |-> dt, Price |-> price, Invest |-> invest, Units |-> units,
     CumUnits |-> cu, TotalInvested |-> ti, Action |-> action,
     SkipsLeft |-> sk, Mult |-> mult]

(***************************************************************************)
(* pd.DataFrame(rows).sort_values("Date") and the two derived columns.     *)
(***************************************************************************)
RECURSIVE InsertByDate(_, _)
InsertByDate(sorted, r) ==
    IF sorted = <<>> THEN <<r>>
    ELSE IF sorted[Len(sorted)].Date <= r.Date THEN Append(sorted, r)
    ELSE Append(InsertByDate(SubSeq(sorted, 1, Len(sorted) - 1), r), sorted[Len(sorted)])

RECURSIVE SortValuesBadDescending(_)
SortValuesBadDescending(rs) ==
    IF rs = <<>> THEN <<>>
    ELSE LET rest == SortValuesBadDescending(SubSeq(rs, 1, Len(rs) - 1))
             r == rs[Len(rs)]
             before == SelectSeq(rest, LAMBDA x : x.Date > r.Date)
             after == SelectSeq(rest, LAMBDA x : x.Date <= r.Date)
         IN  before \o <<r>> \o after

RECURSIVE SortValues(_)
SortValues(rs) ==
    IF rs = <<>> THEN <<>>
    ELSE InsertByDate(SortValues(SubSeq(rs, 1, Len(rs) - 1)), rs[Len(rs)])

\* out["PortfolioValue"] = out["CumUnits"] * out["Price"], in 1/UnitScale money
PortfolioValue(r) == r.CumUnits * r.Price

\* np.where(TotalInvested > 0, (PortfolioValue / TotalInvested - 1.0) * 100.0, 0.0)
RoiBadNoMinusOne(r) ==
    IF r.TotalInvested > 0
    THEN [num |-> PortfolioValue(r) * 100, den |-> r.TotalInvested * UnitScale]
    ELSE [num |-> 0, den |-> 1]

Roi(r) ==
    IF r.TotalInvested > 0
    THEN [num |-> (PortfolioValue(r) - r.TotalInvested * UnitScale) * 100,
          den |-> r.TotalInvested * UnitScale]
    ELSE [num |-> 0, den |-> 1]

Project(rs) ==
    [i \in 1..Len(rs) |->
        [Date |-> rs[i].Date, Price |-> rs[i].Price, Invest |-> rs[i].Invest,
         Units |-> rs[i].Units, CumUnits |-> rs[i].CumUnits,
         TotalInvested |-> rs[i].TotalInvested, Action |-> rs[i].Action,
         SkipsLeft |-> rs[i].SkipsLeft, Mult |-> rs[i].Mult,
         PortfolioValue |-> PortfolioValue(rs[i]), ROI |-> Roi(rs[i])]]

\* The tail of both simulators.  A DataFrame built from an empty list has no
\* columns, so sort_values("Date") raises KeyError and nothing is returned.
FinishBadRefund(rs) ==
    IF rs = <<>>
    THEN [kind |-> "KeyError", out |-> <<>>]
    ELSE [kind |-> "returned",
          out |-> Project(SortValues(
                      [i \in 1..Len(rs) |->
                          IF rs[Len(rs)].SkipsLeft > 0 /\ rs[i].Mult > 1
                          THEN [rs[i] EXCEPT !.Mult = 1]
                          ELSE rs[i]]))]

Finish(rs) ==
    IF rs = <<>>
    THEN [kind |-> "KeyError", out |-> <<>>]
    ELSE [kind |-> "returned", out |-> Project(SortValues(rs))]

(***************************************************************************)
(* simulate_sdca as a function of its arguments (app.py:128-184): the loop *)
(* over the first n samples, then the tail.                                *)
(***************************************************************************)
RECURSIVE SdcaLoop(_, _, _, _, _)
SdcaLoop(ps, b, thr, cap, n) ==
    IF n = 0
    THEN [rows |-> <<>>, prev |-> None, skip |-> 0, cu |-> 0, ti |-> 0]
    ELSE LET st == SdcaLoop(ps, b, thr, cap, n - 1)
             d == Decide(ps[n], st.prev, st.skip, b, thr, cap)
             units == UnitsOf(d.invest, ps[n])
         IN  [rows |-> Append(st.rows, Row(n, ps[n], d.invest, units, st.cu + units,
                                           st.ti + d.invest, d.action, d.skip, d.mult)),
              prev |-> NextPrev(ps[n], st.prev, st.skip),
              skip |-> d.skip,
              cu |-> st.cu + units,
              ti |-> st.ti + d.invest]

SimulateSdca(ps, b, thr, cap) == Finish(SdcaLoop(ps, b, thr, cap, Len(ps)).rows)

(***************************************************************************)
(* The driver run.                                                         *)
(***************************************************************************)
Init ==
    /\ prices \in PriceSeries
    /\ base \in Bases
    /\ threshold_pct \in Thresholds
    /\ max_k \in MaxKs
    /\ pc = "std"
    /\ idx = 0
    /\ rows = <<>>
    /\ cum_units = 0
    /\ total_invested = 0
    /\ prev_price = None
    /\ skip = 0
    /\ std_result = NoResult
    /\ sdca_result = NoResult
    /\ df = <<>>
    /\ frequency = "Daily"
    /\ agg_result = NoResult

\* one iteration of the loop of simulate_standard_dca (app.py:112-121)
StdIter ==
    /\ pc = "std"
    /\ idx < Len(prices)
    /\ LET price == prices[idx + 1]
           invest == StdInvest(base)
           units == Divide(invest, price)
       IN  /\ cum_units' = cum_units + units
           /\ total_invested' = total_invested + invest
           /\ rows' = Append(rows, Row(idx + 1, price, invest, units,
                                       cum_units + units, total_invested + invest,
                                       "base", 0, 1))
    /\ idx' = idx + 1
    /\ UNCHANGED aggVars
    /\ UNCHANGED <<prices, base, threshold_pct, max_k, pc, prev_price, skip,
                   std_result, sdca_result>>

\* the loop is exhausted: lines 122-126
StdFinish ==
    /\ pc = "std"
    /\ idx = Len(prices)
    /\ std_result' = Finish(rows)
    /\ pc' = "between"
    /\ UNCHANGED aggVars
    /\ UNCHANGED <<prices, base, threshold_pct, max_k, idx, rows, cum_units,
                   total_invested, prev_price, skip, sdca_result>>

\* entry of simulate_sdca (app.py:134-139)
SdcaCall ==
    /\ pc = "between"
    /\ pc' = "sdca"
    /\ idx' = 0
    /\ rows' = <<>>
    /\ prev_price' = None
    /\ skip' = 0
    /\ cum_units' = 0
    /\ total_invested' = 0
    /\ UNCHANGED aggVars
    /\ UNCHANGED <<prices, base, threshold_pct, max_k, std_result, sdca_result>>

\* one iteration of the loop of simulate_sdca (app.py:141-178)
SdcaIter ==
    /\ pc = "sdca"
    /\ idx < Len(prices)
    /\ LET price == prices[idx + 1]
           d == Decide(price, prev_price, skip, base, threshold_pct, max_k)
           units == UnitsOf(d.invest, price)
       IN  /\ skip' = d.skip
           /\ cum_units' = cum_units + units
           /\ total_invested' = total_invested + d.invest
           /\ rows' = Append(rows, Row(idx + 1, price, d.invest, units,
                                       cum_units + units, total_invested + d.invest,
                                       d.action, d.skip, d.mult))
           /\ prev_price' = NextPrev(price, prev_price, skip)
    /\ idx' = idx + 1
    /\ UNCHANGED aggVars
    /\ UNCHANGED <<prices, base, threshold_pct, max_k, pc, std_result, sdca_result>>

\* the loop is exhausted: lines 180-184
SdcaFinish ==
    /\ pc = "sdca"
    /\ idx = Len(prices)
    /\ sdca_result' = Finish(rows)
    /\ pc' = "done"
    /\ UNCHANGED aggVars
    /\ UNCHANGED <<prices, base, threshold_pct, max_k, idx, rows, cum_units,
                   total_invested, prev_price, skip, std_result>>

Next == StdIter \/ StdFinish \/ SdcaCall \/ SdcaIter \/ SdcaFinish

Spec == Init /\ [][Next]_vars

(***************************************************************************)
(* aggregate_prices (app.py:94-106).                                       *)
(***************************************************************************)
RECURSIVE SortedSeq(_)
SortedSeq(S) ==
    IF S = {} THEN <<>>
    ELSE LET m == CHOOSE x \in S : \A y \in S : x <= y
         IN  <<m>> \o SortedSeq(S \ {m})

\* df.set_index("Date")["Close"].sort_index()
SortIndex(frame) == SortValues(frame)

\* the Sunday on or after day d: the label of d's "W-SUN" bin
WeekEnd(d) == d + ((7 - (d % 7)) % 7)

\* the last day of d's month: the label of d's "M" bin
MonthEnd(d) == IF d <= 3 THEN 3 ELSE 32

\* pandas bins "W-SUN" and "M" closed and labelled on the right edge
BinLabel(rule, d) == IF rule = "W-SUN" THEN WeekEnd(d) ELSE MonthEnd(d)

\* .last() of one bin: the value of its last row, NaN (None) when it has none
BinLastBadFirst(rule, s, label) ==
    LET members == {i \in 1..Len(s) : BinLabel(rule, s[i].Date) = label}
    IN  IF members = {} THEN None
        ELSE Some(s[CHOOSE i \in members : \A j \in members : i <= j].Close)

BinLast(rule, s, label) ==
    LET members == {i \in 1..Len(s) : BinLabel(rule, s[i].Date) = label}
    IN  IF members = {} THEN None
        ELSE Some(s[CHOOSE i \in members : \A j \in members : j <= i].Close)

\* s.resample(rule).last(): one row per bin from the first sample's bin to the
\* last sample's, empty bins included
ResampleLast(rule, s) ==
    LET labels == SortedSeq({BinLabel(rule, d) : d \in s[1].Date..s[Len(s)].Date})
    IN  [i \in 1..Len(labels) |->
            [Date |-> labels[i], Close |-> BinLast(rule, s, labels[i])]]

\* .dropna()
DropNaBadFill(t) ==
    [i \in 1..Len(t) |->
        [Date |-> t[i].Date, Close |-> IF t[i].Close = None THEN 0 ELSE Val(t[i].Close)]]

DropNa(t) ==
    LET kept == SelectSeq(t, LAMBDA r : r.Close # None)
    IN  [i \in 1..Len(kept) |-> [Date |-> kept[i].Date, Close |-> Val(kept[i].Close)]]

AggregateBadElse(frame, freq) ==
    IF frame = <<>>
    THEN [kind |-> "returned", out |-> <<>>]
    ELSE LET s == SortIndex(frame)
         IN  IF freq = "Weekly"
             THEN [kind |-> "returned", out |-> DropNa(ResampleLast("W-SUN", s))]
             ELSE IF freq = "Monthly"
             THEN [kind |-> "returned", out |-> DropNa(ResampleLast("M", s))]
             ELSE [kind |-> "returned", out |-> s]

AggregatePrices(frame, freq) ==
    IF frame = <<>>
    THEN [kind |-> "returned", out |-> <<>>]
    ELSE LET s == SortIndex(frame)
         IN  IF freq = "Daily"
             THEN [kind |-> "returned", out |-> s]
             ELSE IF freq = "Weekly"
             THEN [kind |-> "returned", out |-> DropNa(ResampleLast("W-SUN", s))]
             ELSE IF freq = "Monthly"
             THEN [kind |-> "returned", out |-> DropNa(ResampleLast("M", s))]
             ELSE [kind |-> "ValueError", out |-> <<>>]

\* the frames the loader can hand over: sorted by Date, one row per date
Frame(S, close) ==
    LET dates == SortedSeq(S)
    IN  [i \in 1..Len(dates) |-> [Date |-> dates[i], Close |-> close[dates[i]]]]

\* ten consecutive daily samples, the first on a Monday
TenDayRuns ==
    {[i \in 1..10 |-> [Date |-> start + i - 1, Close |-> close[i]]] :
        start \in {d \in Days : d % 7 = 1}, close \in [1..10 -> {3, 4}]}

InitAgg ==
    /\ \/ \E S \in {T \in SUBSET Days : Cardinality(T) <= MaxSamples} :
              \E close \in [S -> Prices] : df = Frame(S, close)
       \/ df \in TenDayRuns
    /\ frequency \in Frequencies
    /\ agg_result = NoResult
    /\ prices = <<>>
    /\ base = 1
    /\ threshold_pct = 0
    /\ max_k = None
    /\ pc = "idle"
    /\ idx = 0
    /\ rows = <<>>
    /\ cum_units = 0
    /\ total_invested = 0
    /\ prev_price = None
    /\ skip = 0
    /\ std_result = NoResult
    /\ sdca_result = NoResult

\* one call of aggregate_prices(df, frequency), by the branch it takes
AggCall ==
    /\ agg_result = NoResult
    /\ agg_result' = AggregatePrices(df, frequency)
    /\ UNCHANGED <<df, frequency>>
    /\ UNCHANGED simVars

AggEmpty == df = <<>> /\ AggCall

AggDaily == df # <<>> /\ frequency = "Daily" /\ AggCall

AggWeekly == df # <<>> /\ frequency = "Weekly" /\ AggCall

AggMonthly == df # <<>> /\ frequency = "Monthly" /\ AggCall

AggUnknown ==
    df # <<>> /\ frequency \notin {"Daily", "Weekly", "Monthly"} /\ AggCall

NextAgg == AggEmpty \/ AggDaily \/ AggWeekly \/ AggMonthly \/ AggUnknown

SpecAgg == InitAgg /\ [][NextAgg]_vars

TypeOK ==
    /\ pc \in {"std", "between", "sdca", "done"}
    /\ idx \in 0..Len(prices)
    /\ Len(rows) = idx
    /\ skip \in Nat

(***************************************************************************)
(* Vocabulary of the properties, stated without the operators above.       *)
(***************************************************************************)
StdOut == std_result.out

SdcaOut == sdca_result.out

SkipTags == {SkipTag(n) : n \in 1..100}

\* the number of full threshold units in the drop from prev to price:
\* the k with k * thr/100 <= (prev - price)/prev < (k + 1) * thr/100
FullUnits(price, prev, thr) ==
    CHOOSE k \in 0..100 :
        /\ k * thr * prev <= (prev - price) * 100
        /\ (k + 1) * thr * prev > (prev - price) * 100

\* k clamped to the cap when a cap is set
Capped(k, cap) == IF cap = None THEN k ELSE MinOf(k, Val(cap))

\* the k the specification gives an Armed interval
ArmedK(price, prev, thr, cap) ==
    IF price < prev /\ thr > 0 THEN Capped(FullUnits(price, prev, thr), cap) ELSE 0

\* the contract of the cap: absent or a positive integer
ValidCap == max_k = None \/ Val(max_k) > 0

\* the contract of the simulators' arguments
ValidInputs == base > 0 /\ threshold_pct >= 0 /\ ValidCap

AggOut == agg_result.out

KnownFrequency == frequency \in {"Daily", "Weekly", "Monthly"}

\* day d lies in the period that ends on day end: the week Monday..Sunday, or
\* the calendar month (January ends on day 3, February on day 32)
InPeriod(freq, d, end) ==
    IF freq = "Weekly"
    THEN end % 7 = 0 /\ end - 6 <= d /\ d <= end
    ELSE \/ end = 3 /\ d <= 3
         \/ end = 32 /\ 4 <= d /\ d <= 32

(***************************************************************************)
(* C1.  With no cap, a dip row with k > 0 at interval i is followed by k   *)
(* skip rows (as many of them as the series has): each invests 0 whatever  *)
(* its price, SkipsLeft is k at i and one less at each of them, 0 at       *)
(* i + k, and interval i + k + 1 is not a skip.                            *)
(***************************************************************************)
C1_SkipWindow ==
    (sdca_result.kind = "returned" /\ max_k = None) =>
        LET n == Len(SdcaOut)
        IN  \A i \in 1..n :
                SdcaOut[i].Mult > 1 =>
                    LET k == SdcaOut[i].Mult - 1
                    IN  /\ SdcaOut[i].SkipsLeft = k
                        /\ \A j \in 1..k :
                               i + j <= n =>
                                   /\ SdcaOut[i + j].Invest = 0
                                   /\ SdcaOut[i + j].Units = 0
                                   /\ SdcaOut[i + j].Action = SkipTag(k - j + 1)
                                   /\ SdcaOut[i + j].SkipsLeft = k - j
                        /\ i + k + 1 <= n => SdcaOut[i + k + 1].Action \notin SkipTags

\* a window of two skips, the first at a price below the dip's, that closes
\* before the series ends
C1_Witness ==
    /\ sdca_result.kind = "returned"
    /\ max_k = None
    /\ base > 0
    /\ \E i \in 1..Len(SdcaOut) :
           /\ SdcaOut[i].Mult = 3
           /\ i + 3 <= Len(SdcaOut)
           /\ SdcaOut[i + 1].Price < SdcaOut[i].Price
           /\ SdcaOut[i + 2].SkipsLeft = 0
           /\ SdcaOut[i + 3].Invest > 0

(***************************************************************************)
(* C2, as claimed.  A Skipping interval leaves the previous price          *)
(* unchanged.                                                              *)
(***************************************************************************)
C2_PrevKeptWhileSkipping ==
    [][(pc = "sdca" /\ idx' = idx + 1 /\ ValidInputs /\ prev_price # None /\ skip > 0)
           => prev_price' = prev_price]_vars

(***************************************************************************)
(* C2, amended.  Every interval, a Skipping one included, sets the         *)
(* previous price to its own price, so the first Armed interval after a    *)
(* skip window is decided against the price of the last skipped interval.  *)
(***************************************************************************)
C2_PrevIsLastPrice ==
    /\ (pc = "sdca" /\ idx > 0) => prev_price = Some(prices[idx])
    /\ (sdca_result.kind = "returned" /\ ValidCap) =>
           \A j \in 2..Len(SdcaOut) :
               (SdcaOut[j - 1].Action \in SkipTags /\ SdcaOut[j - 1].SkipsLeft = 0) =>
                   SdcaOut[j].Mult =
                       1 + ArmedK(SdcaOut[j].Price, SdcaOut[j - 1].Price,
                                  threshold_pct, max_k)

\* a skip interval at a price other than the dip's has just been processed,
\* and a window has closed on a price at which the dip price would have
\* triggered a dip but the last skipped price does not
C2_Witness ==
    /\ sdca_result.kind = "returned"
    /\ ValidCap
    /\ \E j \in 4..Len(SdcaOut) :
           /\ SdcaOut[j - 3].Mult = 3
           /\ SdcaOut[j - 1].SkipsLeft = 0
           /\ SdcaOut[j - 1].Action \in SkipTags
           /\ SdcaOut[j - 1].Price # SdcaOut[j - 3].Price
           /\ ArmedK(SdcaOut[j].Price, SdcaOut[j - 3].Price, threshold_pct, max_k) > 0
           /\ SdcaOut[j].Mult = 1

(***************************************************************************)
(* C3.  The first interval invests base and leaves the skip counter 0.  An *)
(* Armed interval (skip counter 0, previous price known) computes          *)
(* k = floor(|change| / (threshold/100)) when the price is below the       *)
(* previous price and the threshold is positive, clamped to the cap; with  *)
(* k > 0 it invests (1 + k) x base, records multiplier 1 + k and sets the  *)
(* skip counter to k, otherwise it invests base with multiplier 1 and      *)
(* leaves the skip counter 0.                                              *)
(***************************************************************************)
C3_ArmedDecision ==
    [][(pc = "sdca" /\ idx' = idx + 1 /\ ValidCap) =>
           LET price == prices[idx + 1]
               r == rows'[idx + 1]
           IN  IF prev_price = None
               THEN r.Invest = base /\ r.Mult = 1 /\ r.SkipsLeft = 0 /\ skip' = 0
               ELSE skip = 0 =>
                        LET k == ArmedK(price, Val(prev_price), threshold_pct, max_k)
                        IN  IF k > 0
                            THEN /\ r.Invest = (1 + k) * base
                                 /\ r.Mult = 1 + k
                                 /\ r.SkipsLeft = k
                                 /\ skip' = k
                            ELSE /\ r.Invest = base
                                 /\ r.Mult = 1
                                 /\ r.SkipsLeft = 0
                                 /\ skip' = 0]_vars

\* a drop of 25% against a threshold of 10%: two full units and a half
C3_Witness ==
    /\ pc = "sdca"
    /\ threshold_pct = 10
    /\ max_k = None
    /\ base = 2
    /\ idx >= 2
    /\ rows[idx - 1].Price = 4
    /\ rows[idx - 1].SkipsLeft = 0
    /\ rows[idx].Price = 3
    /\ rows[idx].Invest = 6
    /\ skip = 2

(***************************************************************************)
(* C4.  With a cap c > 0 (and a positive base) no record invests more than *)
(* (1 + c) x base and no record has SkipsLeft above c.                     *)
(***************************************************************************)
C4_CapBounds ==
    (sdca_result.kind = "returned" /\ max_k # None /\ Val(max_k) > 0 /\ base > 0) =>
        \A i \in 1..Len(SdcaOut) :
            /\ SdcaOut[i].Invest <= (1 + Val(max_k)) * base
            /\ SdcaOut[i].SkipsLeft <= Val(max_k)

\* a drop worth more units than the cap allows: the cap is what binds
C4_Witness ==
    /\ sdca_result.kind = "returned"
    /\ max_k = Some(2)
    /\ base > 0
    /\ threshold_pct > 0
    /\ \E i \in 2..Len(SdcaOut) :
           /\ SdcaOut[i - 1].SkipsLeft = 0
           /\ SdcaOut[i].Price < SdcaOut[i - 1].Price
           /\ FullUnits(SdcaOut[i].Price, SdcaOut[i - 1].Price, threshold_pct) > 2
           /\ SdcaOut[i].Invest = 3 * base
           /\ SdcaOut[i].SkipsLeft = 2

(***************************************************************************)
(* C5, as claimed.  With threshold 0 (and a positive base) the SDCA ledger *)
(* equals the Standard DCA ledger in Invest and Units, and its Action is   *)
(* "base" at every interval.                                               *)
(***************************************************************************)
C5_SameAsStandardAllBase ==
    (pc = "done" /\ threshold_pct = 0 /\ base > 0
        /\ std_result.kind = "returned" /\ sdca_result.kind = "returned") =>
        /\ Len(SdcaOut) = Len(StdOut)
        /\ \A i \in 1..Len(SdcaOut) :
               /\ SdcaOut[i].Invest = StdOut[i].Invest
               /\ SdcaOut[i].Units = StdOut[i].Units
               /\ SdcaOut[i].Action = "base"
               /\ StdOut[i].Action = "base"

(***************************************************************************)
(* C5, amended.  With threshold 0 (and a positive base) the SDCA ledger    *)
(* equals the Standard DCA ledger in Invest and Units (and in the          *)
(* cumulative columns, SkipsLeft and Mult) at every interval; its Action   *)
(* is "base (first)" at the first interval and "base" at every later one.  *)
(***************************************************************************)
C5_SameAsStandardButFirstTag ==
    (pc = "done" /\ threshold_pct = 0 /\ base > 0
        /\ std_result.kind = "returned" /\ sdca_result.kind = "returned") =>
        /\ Len(SdcaOut) = Len(StdOut)
        /\ \A i \in 1..Len(SdcaOut) :
               /\ SdcaOut[i].Date = StdOut[i].Date
               /\ SdcaOut[i].Price = StdOut[i].Price
               /\ SdcaOut[i].Invest = StdOut[i].Invest
               /\ SdcaOut[i].Units = StdOut[i].Units
               /\ SdcaOut[i].CumUnits = StdOut[i].CumUnits
               /\ SdcaOut[i].TotalInvested = StdOut[i].TotalInvested
               /\ SdcaOut[i].SkipsLeft = StdOut[i].SkipsLeft
               /\ SdcaOut[i].Mult = StdOut[i].Mult
               /\ SdcaOut[i].Action = IF i = 1 THEN "base (first)" ELSE "base"
               /\ StdOut[i].Action = "base"

\* threshold 0 on a series with a 40% drop in it
C5_Witness ==
    /\ pc = "done"
    /\ threshold_pct = 0
    /\ base > 0
    /\ sdca_result.kind = "returned"
    /\ \E i \in 2..Len(SdcaOut) :
           /\ SdcaOut[i - 1].Price = 5
           /\ SdcaOut[i].Price = 3
           /\ i < Len(SdcaOut)

(***************************************************************************)
(* C6.  In the Standard DCA ledger (positive base) record n has            *)
(* TotalInvested = n x base, Invest = base and Action "base", and CumUnits *)
(* is greater than in the record before it.                                *)
(***************************************************************************)
C6_StandardLedger ==
    (std_result.kind = "returned" /\ base > 0) =>
        \A n \in 1..Len(StdOut) :
            /\ StdOut[n].TotalInvested = n * base
            /\ StdOut[n].Invest = base
            /\ StdOut[n].Action = "base"
            /\ StdOut[n].CumUnits > (IF n = 1 THEN 0 ELSE StdOut[n - 1].CumUnits)

C6_Witness ==
    /\ std_result.kind = "returned"
    /\ base = 2
    /\ Len(StdOut) >= 3
    /\ StdOut[1].Price > StdOut[2].Price
    /\ StdOut[2].Price < StdOut[3].Price
    /\ StdOut[3].TotalInvested = 6

(***************************************************************************)
(* C7, as claimed.  On an empty price series both simulators return an     *)
(* empty ledger and raise nothing.                                         *)
(***************************************************************************)
C7_EmptyReturnsEmpty ==
    (pc = "done" /\ prices = <<>>) =>
        /\ std_result = [kind |-> "returned", out |-> <<>>]
        /\ sdca_result = [kind |-> "returned", out |-> <<>>]

(***************************************************************************)
(* C8, as claimed.  A call with a non-positive base (either simulator) or  *)
(* a negative threshold (simulate_sdca) ends in an error and returns no    *)
(* records.                                                                *)
(***************************************************************************)
C8_InvalidArgumentRejected ==
    /\ (pc \in {"between", "sdca", "done"} /\ base <= 0) =>
           std_result.kind # "returned" /\ StdOut = <<>>
    /\ (pc = "done" /\ (base <= 0 \/ threshold_pct < 0)) =>
           sdca_result.kind # "returned" /\ SdcaOut = <<>>

(***************************************************************************)
(* C9, as claimed.  With a frequency other than Daily, Weekly and Monthly  *)
(* aggregate_prices fails and returns nothing, whatever the input series,  *)
(* the empty one included.                                                 *)
(***************************************************************************)
C9_UnknownFrequencyAlwaysFails ==
    (agg_result # NoResult /\ ~KnownFrequency) =>
        agg_result = [kind |-> "ValueError", out |-> <<>>]

(***************************************************************************)
(* C9, amended.  With a frequency other than Daily, Weekly and Monthly     *)
(* aggregate_prices fails with ValueError and returns nothing for every    *)
(* non-empty input series; for the empty series it returns the empty       *)
(* series and raises nothing.                                              *)
(***************************************************************************)
C9_UnknownFrequencyFailsUnlessEmpty ==
    (agg_result # NoResult /\ ~KnownFrequency) =>
        IF df = <<>>
        THEN agg_result = [kind |-> "returned", out |-> <<>>]
        ELSE agg_result = [kind |-> "ValueError", out |-> <<>>]

C9_Witness ==
    /\ ~KnownFrequency
    /\ Len(df) >= 2
    /\ agg_result.kind = "ValueError"

(***************************************************************************)
(* C10, as claimed.  For Daily, Weekly and Monthly the output is sorted    *)
(* ascending with unique timestamps and every output (timestamp, price)    *)
(* pair is a sample of the input, in the input's order.                    *)
(***************************************************************************)
C10_OutputIsSubsequence ==
    (agg_result.kind = "returned" /\ KnownFrequency) =>
        /\ \A i \in 1..(Len(AggOut) - 1) : AggOut[i].Date < AggOut[i + 1].Date
        /\ \A i \in 1..Len(AggOut) : \E j \in 1..Len(df) : df[j] = AggOut[i]

(***************************************************************************)
(* C10, amended.  For Daily, Weekly and Monthly the output is sorted       *)
(* ascending with unique timestamps.  A Daily output is the input.  A      *)
(* Weekly or Monthly row carries the price of an input sample, the last    *)
(* sample of its bucket, and its timestamp is the period boundary of that  *)
(* bucket (the week-ending Sunday, the month end), on or after the         *)
(* timestamp of that sample.                                               *)
(***************************************************************************)
C10_OutputPricesAtPeriodEnds ==
    (agg_result.kind = "returned" /\ KnownFrequency) =>
        /\ \A i \in 1..(Len(AggOut) - 1) : AggOut[i].Date < AggOut[i + 1].Date
        /\ frequency = "Daily" => AggOut = df
        /\ frequency # "Daily" =>
               \A i \in 1..Len(AggOut) :
                   LET members == {j \in 1..Len(df) :
                                      InPeriod(frequency, df[j].Date, AggOut[i].Date)}
                   IN  /\ members # {}
                       /\ \E j \in members :
                              /\ \A m \in members : m <= j
                              /\ AggOut[i].Close = df[j].Close
                              /\ df[j].Date <= AggOut[i].Date

\* two rows, the first for a bucket of two samples at different prices whose
\* last sample is not on the period boundary
C10_Witness ==
    /\ agg_result.kind = "returned"
    /\ frequency \in {"Weekly", "Monthly"}
    /\ Len(df) = 3
    /\ Len(AggOut) = 2
    /\ df[1].Close # df[2].Close
    /\ AggOut[1].Close = df[2].Close
    /\ AggOut[1].Date > df[2].Date
    /\ AggOut[2].Close = df[3].Close

\* the bucket of day d, numbered in calendar order: the week Monday..Sunday,
\* or the month (January up to day 3, February after it)
BucketOf(freq, d) ==
    IF freq = "Weekly" THEN (d + 6) \div 7 ELSE IF d <= 3 THEN 1 ELSE 2

\* the buckets that hold a sample of the input
NonEmptyBuckets == {BucketOf(frequency, df[j].Date) : j \in 1..Len(df)}

\* the price of the chronologically last sample of bucket b
LastPriceOf(b) ==
    LET members == {j \in 1..Len(df) : BucketOf(frequency, df[j].Date) = b}
    IN  df[CHOOSE j \in members : \A m \in members : df[m].Date <= df[j].Date].Close

(***************************************************************************)
(* C11.  Weekly and Monthly aggregation emit one row for each bucket that  *)
(* holds a sample and none for a bucket without samples, in ascending      *)
(* bucket order, each with the price of the last sample of its bucket; ten *)
(* consecutive daily samples from a Monday on give 1 or 2 weekly rows.     *)
(***************************************************************************)
C11_OneRowPerNonEmptyBucket ==
    (agg_result.kind = "returned" /\ frequency \in {"Weekly", "Monthly"}) =>
        LET buckets == SortedSeq(NonEmptyBuckets)
        IN  /\ Len(AggOut) = Len(buckets)
            /\ \A i \in 1..Len(AggOut) :
                   /\ AggOut[i].Close = LastPriceOf(buckets[i])
                   /\ BucketOf(frequency, AggOut[i].Date) = buckets[i]
            /\ (frequency = "Weekly" /\ df \in TenDayRuns) => Len(AggOut) \in {1, 2}

\* samples in the first and the third week and none in the second
C11_Witness ==
    /\ agg_result.kind = "returned"
    /\ frequency = "Weekly"
    /\ Len(df) = 3
    /\ df[1].Date <= 7
    /\ df[2].Date <= 7
    /\ df[1].Close # df[2].Close
    /\ df[3].Date > 14
    /\ Len(AggOut) = 2

\* the ten-day case of C11
C11_WitnessTenDays ==
    /\ agg_result.kind = "returned"
    /\ frequency = "Weekly"
    /\ df \in TenDayRuns
    /\ df[7].Close # df[10].Close
    /\ Len(AggOut) = 2

\* a ledger row carries the portfolio value and the return of its own
\* interval: value = units x price, return = (value / invested - 1) x 100 for a
\* positive invested total and 0 for a zero one (units and value are counted
\* in 1/UnitScale, the return is the ratio num/den with den > 0)
RowProjected(r) ==
    /\ r.PortfolioValue = r.CumUnits * r.Price
    /\ r.ROI.den > 0
    /\ r.TotalInvested > 0 =>
           r.ROI.num * (r.TotalInvested * UnitScale) =
               (r.CumUnits * r.Price - r.TotalInvested * UnitScale) * 100 * r.ROI.den
    /\ r.TotalInvested = 0 => r.ROI.num = 0

(***************************************************************************)
(* C12.  Every record of either ledger, not only the last, has             *)
(* PortfolioValue = CumUnits x Price of its interval and                   *)
(* ROI_% = (PortfolioValue / TotalInvested - 1) x 100 when TotalInvested   *)
(* is positive, 0 when it is 0.                                            *)
(***************************************************************************)
C12_ProjectionEveryRow ==
    /\ std_result.kind = "returned" => \A i \in 1..Len(StdOut) : RowProjected(StdOut[i])
    /\ sdca_result.kind = "returned" => \A i \in 1..Len(SdcaOut) : RowProjected(SdcaOut[i])

\* an inner row with a gain, a later row with a loss, in a ledger with a dip
C12_Witness ==
    /\ pc = "done"
    /\ base > 0
    /\ sdca_result.kind = "returned"
    /\ Len(SdcaOut) >= 4
    /\ \E i \in 2..(Len(SdcaOut) - 1) :
           /\ SdcaOut[i].ROI.num < 0
           /\ SdcaOut[i].Mult > 1
           /\ SdcaOut[i + 1].ROI.num > 0
           /\ SdcaOut[i + 1].Invest = 0
    /\ \E i \in 2..(Len(StdOut) - 1) : StdOut[i].ROI.num # 0

\* the ledger has one record per sample of the series, in the series' order
OnePerSample(result) ==
    /\ result.kind = "returned"
    /\ Len(result.out) = Len(prices)
    /\ \A i \in 1..Len(prices) :
           /\ result.out[i].Date = i
           /\ result.out[i].Price = prices[i]
    /\ \A i \in 1..(Len(prices) - 1) : result.out[i].Date < result.out[i + 1].Date

(***************************************************************************)
(* C13.  On a non-empty series each simulator returns one record per       *)
(* input sample, zero-investment skip intervals included, in the           *)
(* timestamp order of the input.                                           *)
(***************************************************************************)
C13_OneRecordPerSample ==
    /\ (pc \in {"between", "sdca", "done"} /\ prices # <<>>) => OnePerSample(std_result)
    /\ (pc = "done" /\ prices # <<>>) => OnePerSample(sdca_result)

\* a ledger of five records, two of them skips
C13_Witness ==
    /\ pc = "done"
    /\ Len(prices) = 5
    /\ Len(SdcaOut) = 5
    /\ base > 0
    /\ SdcaOut[3].Action = SkipTag(2)
    /\ SdcaOut[4].Action = SkipTag(1)
    /\ SdcaOut[4].Invest = 0
    /\ SdcaOut[5].Invest > 0

(***************************************************************************)
(* C14.  In the SDCA ledger (positive prices and base) CumUnits and        *)
(* TotalInvested never decrease: a skip interval (Invest = 0, Units = 0)   *)
(* leaves both unchanged, every other interval increases both.             *)
(***************************************************************************)
C14_CumulativeMonotone ==
    (sdca_result.kind = "returned" /\ base > 0) =>
        \A i \in 1..Len(SdcaOut) :
            LET cuBefore == IF i = 1 THEN 0 ELSE SdcaOut[i - 1].CumUnits
                tiBefore == IF i = 1 THEN 0 ELSE SdcaOut[i - 1].TotalInvested
            IN  IF SdcaOut[i].Action \in SkipTags
                THEN /\ SdcaOut[i].Invest = 0
                     /\ SdcaOut[i].Units = 0
                     /\ SdcaOut[i].CumUnits = cuBefore
                     /\ SdcaOut[i].TotalInvested = tiBefore
                ELSE /\ SdcaOut[i].CumUnits > cuBefore
                     /\ SdcaOut[i].TotalInvested > tiBefore

\* a dip, its skip and a plain purchase after it, at base 1
C14_Witness ==
    /\ sdca_result.kind = "returned"
    /\ base = 1
    /\ \E i \in 2..(Len(SdcaOut) - 2) :
           /\ SdcaOut[i].Mult = 2
           /\ SdcaOut[i + 1].Action = SkipTag(1)
           /\ SdcaOut[i + 1].CumUnits = SdcaOut[i].CumUnits
           /\ SdcaOut[i + 2].Mult = 1
           /\ SdcaOut[i + 2].CumUnits > SdcaOut[i + 1].CumUnits

\* the columns the loop recorded in row r are those of the returned row q
SameRecord(r, q) ==
    /\ q.Date = r.Date
    /\ q.Price = r.Price
    /\ q.Invest = r.Invest
    /\ q.Units = r.Units
    /\ q.CumUnits = r.CumUnits
    /\ q.TotalInvested = r.TotalInvested
    /\ q.Action = r.Action
    /\ q.SkipsLeft = r.SkipsLeft
    /\ q.Mult = r.Mult

\* a step of the simulate_sdca run consumes one sample and adds one record to
\* those already produced; the run ends only when every sample is consumed,
\* and what it returns are the records produced, an open skip window or not
SdcaStepPerSample ==
    /\ (pc = "sdca" /\ pc' = "sdca") =>
           /\ idx < Len(prices)
           /\ idx' = idx + 1
           /\ Len(rows') = Len(rows) + 1
           /\ \A i \in 1..Len(rows) : rows'[i] = rows[i]
    /\ (pc = "sdca" /\ pc' = "done") =>
           /\ idx = Len(prices)
           /\ Len(rows) = Len(prices)
           /\ Len(sdca_result'.out) = Len(rows)
           /\ \A i \in 1..Len(rows) : SameRecord(rows[i], sdca_result'.out[i])

\* the running simulate_sdca can take a step: the loop body on the next sample,
\* or the return once the series is exhausted (the guard of SdcaFinish, whose
\* other conjuncts only assign)
SdcaCanStep == ENABLED SdcaIter \/ (pc = "sdca" /\ idx = Len(prices))

\* the number of steps the simulate_sdca run has left: one per sample not yet
\* consumed and the return
SdcaStepsLeft == IF pc = "sdca" THEN Len(prices) - idx + 1 ELSE 0

(***************************************************************************)
(* C15.  A simulate_sdca run over a finite series terminates, after one    *)
(* transition per sample: while it runs a step is always possible and      *)
(* every step brings the end one step nearer.  When the series ends inside *)
(* a skip window the run just ends and the records produced, the enlarged  *)
(* dip purchase included, are returned as they were recorded.              *)
(***************************************************************************)
C15_TerminatesOneStepPerSample ==
    [][/\ pc' = "sdca" => (SdcaCanStep)'
       /\ pc = "sdca" => SdcaStepsLeft' = SdcaStepsLeft - 1
       /\ SdcaStepPerSample]_vars

\* the run has ended inside a skip window opened by a triple purchase
C15_Witness ==
    /\ pc = "done"
    /\ skip > 0
    /\ base > 0
    /\ sdca_result.kind = "returned"
    /\ Len(SdcaOut) = Len(prices)
    /\ \E i \in 2..Len(SdcaOut) :
           /\ SdcaOut[i].Mult = 3
           /\ SdcaOut[i].Invest = 3 * base
    /\ SdcaOut[Len(SdcaOut)].SkipsLeft > 0

(***************************************************************************)
(* C16.  Budget conservation: after interval n of a simulate_sdca run      *)
(* TotalInvested = (n + SkipsLeft of interval n) x base, so SDCA is ahead  *)
(* of Standard DCA's n x base by SkipsLeft x base, and level with it       *)
(* wherever no skip window is open.                                        *)
(***************************************************************************)
C16_BudgetConservation ==
    (pc = "done" /\ sdca_result.kind = "returned" /\ std_result.kind = "returned") =>
        \A n \in 1..Len(SdcaOut) :
            /\ SdcaOut[n].TotalInvested = (n + SdcaOut[n].SkipsLeft) * base
            /\ StdOut[n].TotalInvested = n * base
            /\ SdcaOut[n].TotalInvested - StdOut[n].TotalInvested
                   = SdcaOut[n].SkipsLeft * base
            /\ SdcaOut[n].SkipsLeft = 0 =>
                   SdcaOut[n].TotalInvested = StdOut[n].TotalInvested

\* a window of two skips opens and closes: ahead by 2 x base, then level
C16_Witness ==
    /\ pc = "done"
    /\ base = 2
    /\ sdca_result.kind = "returned"
    /\ \E n \in 2..(Len(SdcaOut) - 2) :
           /\ SdcaOut[n].SkipsLeft = 2
           /\ SdcaOut[n].TotalInvested = StdOut[n].TotalInvested + 4
           /\ SdcaOut[n + 2].SkipsLeft = 0
           /\ SdcaOut[n + 2].TotalInvested = StdOut[n + 2].TotalInvested

(***************************************************************************)
(* C17.  A cap max_k that is 0 or negative is no cap: the ledger of        *)
(* simulate_sdca is the one max_k = None gives on the same series, base    *)
(* and threshold.                                                          *)
(***************************************************************************)
C17_NonPositiveCapIsNoCap ==
    (pc = "done" /\ max_k # None /\ Val(max_k) <= 0) =>
        sdca_result = SimulateSdca(prices, base, threshold_pct, None)

\* cap 0 and a purchase of five times the base: k = 4 went unclamped
C17_Witness ==
    /\ pc = "done"
    /\ max_k = Some(0)
    /\ base > 0
    /\ sdca_result.kind = "returned"
    /\ \E i \in 2..Len(SdcaOut) :
           /\ SdcaOut[i].Mult = 5
           /\ SdcaOut[i].Invest = 5 * base
           /\ SdcaOut[i].SkipsLeft = 4

=============================================================================
